---- MODULE Spec2Model ----
(***************************************************************************)
(* A model of three units of the documenso web application:                *)
(*   - addTeamEmailVerification, the team-email-verification workflow      *)
(*     (teams-data-table.tsx, lines 229-341),                              *)
(*   - AuthenticatedTeamsDashboardLayout, the teams dashboard layout       *)
(*     (layout.tsx),                                                       *)
(*   - TeamsDataTable, the searchable, paginated teams table               *)
(*     (teams-data-table.tsx, lines 26-201).                               *)
(* Each unit has its own specification over the shared variables.          *)
(***************************************************************************)
EXTENDS Integers, Sequences, FiniteSets, TLC

VARIABLES
    \* ---- the database and the mail transport -------------------------
    teamEmail,              \* table TeamEmail: team id -> its email, or NoEmail
    teamEmailVerification,  \* table TeamEmailVerification: the committed rows
    emailUnique,            \* whether the store reports duplicate verification emails (P2002 on 'email')
    outbox,                 \* the mails handed to mailer.sendMail, in order
    now,                    \* the clock, in minutes
    \* ---- addTeamEmailVerification ------------------------------------
    call,                   \* per slot: the position and locals of its call, kept after the call has ended
    nextNo,                 \* the number of the next call
    \* ---- AuthenticatedTeamsDashboardLayout ---------------------------
    layout,
    \* ---- TeamsDataTable ----------------------------------------------
    table

verifyVars == <<teamEmail, teamEmailVerification, emailUnique, outbox, now, call, nextNo>>
vars == <<teamEmail, teamEmailVerification, emailUnique, outbox, now, call, nextNo, layout, table>>

\* An absent value (null / undefined) is the empty sequence, a present one a
\* one-element sequence.
Null == <<>>
Some(x) == <<x>>

(***************************************************************************)
(* Bounds of the model.                                                    *)
(***************************************************************************)
MaxCalls == 2       \* calls of addTeamEmailVerification in one behaviour

Teams == {1, 2}
\* The team ids a request may carry: 3 is the id of no team.
TeamIds == {1, 2, 3}
Users == {1, 2}
Emails == {"a@x.io", "b@x.io"}
NoEmail == "none"
\* Two requests may be in flight at once.
Slots == {1, 2}

(***************************************************************************)
(* Team membership.  Roles and the MANAGE_TEAM permission.                 *)
(***************************************************************************)
TEAM_MEMBER_ROLE_PERMISSIONS_MAP(action) ==
    IF action = "MANAGE_TEAM" THEN {"ADMIN", "MANAGER"} ELSE {"ADMIN", "MANAGER", "MEMBER"}

\* The members of each team: user 1 administers team 1 and manages team 2,
\* user 2 is a plain member of team 1 and no member of team 2.
MemberRole(teamId, userId) ==
    CASE userId = 1 /\ teamId = 1 -> "ADMIN"
      [] userId = 1 /\ teamId = 2 -> "MANAGER"
      [] userId = 2 /\ teamId = 1 -> "MEMBER"
      [] OTHER -> "NONE"

\* A where clause without the role filter: any member is found.
FindTeamWhereMutant(teamId, userId) ==
    teamId \in Teams /\ MemberRole(teamId, userId) # "NONE"

\* The where clause of tx.team.findFirstOrThrow.
FindTeamWhere(teamId, userId) ==
    /\ teamId \in Teams
    /\ MemberRole(teamId, userId) \in TEAM_MEMBER_ROLE_PERMISSIONS_MAP("MANAGE_TEAM")

(***************************************************************************)
(* Errors.                                                                 *)
(***************************************************************************)
Err(cls, code, targetOk, target) ==
    [cls |-> cls, code |-> code, targetOk |-> targetOk, target |-> target]

NoError == Err("none", "", FALSE, {})
AppError(code) == Err("AppError", code, FALSE, {})
\* A PrismaClientKnownRequestError whose meta.target is an array of strings.
PrismaError(code, target) == Err("PrismaClientKnownRequestError", code, TRUE, target)
\* A PrismaClientKnownRequestError without meta.target.
PrismaErrorNoTarget(code) == Err("PrismaClientKnownRequestError", code, FALSE, {})
PlainError(code) == Err("Error", code, FALSE, {})

\* A catch block that does not look at meta.target.
CatchHandlerMutant(err) ==
    IF err.cls # "PrismaClientKnownRequestError" THEN err
    ELSE IF err.code = "P2002" THEN AppError("ALREADY_EXISTS")
    ELSE err

\* The catch block: what the caller of addTeamEmailVerification sees for an
\* error thrown inside the transaction.
CatchHandler(err) ==
    IF err.cls # "PrismaClientKnownRequestError" THEN err
    ELSE IF err.code = "P2002" /\ err.targetOk /\ "email" \in err.target
         THEN AppError("ALREADY_EXISTS")
    ELSE err

(***************************************************************************)
(* generateTeamEmailVerificationToken.                                     *)
(***************************************************************************)
TokenTtl == 10      \* minutes
TokenSize == 32
\* What the clock may advance between two reads in one expression.
ClockStep == {0, 1}

NanoidAlphabet == <<"A", "b", "3", "_">>
RECURSIVE Digit(_, _)
Digit(n, i) == IF i = 1 THEN n % 4 ELSE Digit(n \div 4, i - 1)
\* nanoid(size): size characters; seed stands for the random source.
nanoid(size, seed) == [i \in 1..size |-> NanoidAlphabet[Digit(seed, i) + 1]]

\* A generator with expiresAt and createdAt taken for one another.
generateTeamEmailVerificationTokenMutant(t, elapsed, seed) ==
    [expiresAt |-> t + elapsed, token |-> nanoid(TokenSize, seed), createdAt |-> t + TokenTtl]

\* t is the clock at DateTime.now(), elapsed what it advances until new Date().
generateTeamEmailVerificationToken(t, elapsed, seed) ==
    [expiresAt |-> t + TokenTtl, token |-> nanoid(TokenSize, seed), createdAt |-> t + elapsed]

(***************************************************************************)
(* addTeamEmailVerification.                                               *)
(***************************************************************************)
IdleCall ==
    [pc |-> "idle", no |-> 0, userId |-> 0, teamId |-> 0, email |-> NoEmail, name |-> "",
     hadEmail |-> FALSE, hadVerification |-> FALSE,
     team |-> Null, token |-> Null, generatedAt |-> 0, write |-> Null,
     created |-> Null, thrown |-> NoError, result |-> NoError]

\* The rows of TeamEmailVerification of a team.
VerificationsOf(teamId) == {r \in teamEmailVerification : r.teamId = teamId}

\* The rows other transactions have written and not yet committed.
UncommittedOthers(c) == {call[d].write[1] : d \in {x \in Slots : x # c /\ call[x].write # Null}}

\* A condition that forgets team.emailVerification.
TeamHasEmailOrVerificationMutant(team) == team.email # Null

\* team.email || team.emailVerification
TeamHasEmailOrVerification(team) == team.email # Null \/ team.emailVerification # Null

\* A call that has ended: what was thrown inside the transaction, what the
\* caller sees, and the row the transaction had created.
Ended(c, thrown, result) ==
    [call[c] EXCEPT !.pc = "ended", !.write = Null, !.created = call[c].write,
                    !.thrown = thrown, !.result = result]

\* An error leaves the transaction callback: the transaction is rolled back
\* and the catch block decides what the caller sees.
Throw(c, err) ==
    /\ call' = [call EXCEPT ![c] = Ended(c, err, CatchHandler(err))]

\* A request arrives.  It takes the first slot that holds no call in flight
\* (the slots are interchangeable).
Start(c) ==
    /\ call[c].pc \in {"idle", "ended"}
    /\ \A d \in Slots : d < c => call[d].pc \notin {"idle", "ended"}
    /\ nextNo <= MaxCalls
    /\ \E userId \in Users, teamId \in TeamIds, email \in Emails :
         call' = [call EXCEPT ![c] =
                    [IdleCall EXCEPT !.pc = "findTeam", !.no = nextNo, !.userId = userId,
                                     !.teamId = teamId, !.email = email, !.name = "Support",
                                     !.hadEmail = teamId \in Teams /\ teamEmail[teamId] # NoEmail,
                                     !.hadVerification = VerificationsOf(teamId) # {}]]
    /\ nextNo' = nextNo + 1
    /\ UNCHANGED <<teamEmail, teamEmailVerification, emailUnique, outbox, now, layout, table>>

\* tx.team.findFirstOrThrow and the check of team.email / team.emailVerification.
FindTeam(c) ==
    /\ call[c].pc = "findTeam"
    /\ LET teamId == call[c].teamId
           rows == VerificationsOf(teamId)
       IN  IF ~FindTeamWhere(teamId, call[c].userId)
           THEN Throw(c, PrismaErrorNoTarget("P2025"))   \* no record found
           ELSE LET team == [email |-> IF teamEmail[teamId] = NoEmail THEN Null
                                       ELSE Some(teamEmail[teamId]),
                             emailVerification |-> IF rows = {} THEN Null
                                                   ELSE Some(CHOOSE r \in rows : TRUE)]
                IN  IF TeamHasEmailOrVerification(team)
                    THEN call' = [call EXCEPT ![c] =
                                    [Ended(c, AppError("INVALID_REQUEST"),
                                           CatchHandler(AppError("INVALID_REQUEST")))
                                       EXCEPT !.team = Some(team)]]
                    ELSE call' = [call EXCEPT ![c].pc = "findTeamEmail",
                                              ![c].team = Some(team)]
    /\ UNCHANGED <<teamEmail, teamEmailVerification, emailUnique, outbox, now, nextNo, layout, table>>

\* tx.teamEmail.findFirst({ where: { email } })
ExistingTeamEmail(email) == {t \in Teams : teamEmail[t] = email}

FindTeamEmail(c) ==
    /\ call[c].pc = "findTeamEmail"
    /\ IF ExistingTeamEmail(call[c].email) # {}
       THEN Throw(c, AppError("ALREADY_EXISTS"))
       ELSE call' = [call EXCEPT ![c].pc = "create"]
    /\ UNCHANGED <<teamEmail, teamEmailVerification, emailUnique, outbox, now, nextNo, layout, table>>

\* The unique indexes a new row of TeamEmailVerification would violate among
\* `rows`: teamId (the relation team.emailVerification is one-to-one) and,
\* where the store enforces it, email.
ViolatedTargets(row, rows) ==
    IF \E r \in rows : r.teamId = row.teamId THEN {"teamId"}
    ELSE IF emailUnique /\ \E r \in rows : r.email = row.email THEN {"email"}
    ELSE {}

\* generateTeamEmailVerificationToken() and tx.teamEmailVerification.create.
\* An insert that conflicts with a row another transaction has not yet
\* committed waits for that transaction to end.
Create(c) ==
    /\ call[c].pc = "create"
    /\ \E elapsed \in ClockStep :
         LET token == generateTeamEmailVerificationToken(now, elapsed, call[c].no)
             row == [teamId |-> call[c].teamId, email |-> call[c].email, name |-> call[c].name,
                     token |-> token.token, createdAt |-> token.createdAt,
                     expiresAt |-> token.expiresAt, by |-> call[c].no]
         IN  /\ ViolatedTargets(row, UncommittedOthers(c)) = {}
             /\ now' = now + elapsed
             /\ IF ViolatedTargets(row, teamEmailVerification) # {}
                THEN Throw(c, PrismaError("P2002", ViolatedTargets(row, teamEmailVerification)))
                ELSE call' = [call EXCEPT ![c].pc = "send", ![c].token = Some(token.token),
                                          ![c].generatedAt = now, ![c].write = Some(row)]
    /\ UNCHANGED <<teamEmail, teamEmailVerification, emailUnique, outbox, nextNo, layout, table>>

\* A mail that carries a token of its own instead of the one it is given.
sendTeamEmailVerificationEmailMutant(c, email, token) ==
    [to |-> email, token |-> nanoid(TokenSize, 0), by |-> call[c].no]

\* sendTeamEmailVerificationEmail(email, token, teamName, teamUrl): the mail
\* handed to mailer.sendMail (by: the call that sends it).
sendTeamEmailVerificationEmail(c, email, token) ==
    [to |-> email, token |-> token, by |-> call[c].no]

\* The mail is sent.
Send(c) ==
    /\ call[c].pc = "send"
    /\ outbox' = Append(outbox,
                        sendTeamEmailVerificationEmail(c, call[c].email, call[c].token[1]))
    /\ call' = [call EXCEPT ![c].pc = "commit"]
    /\ UNCHANGED <<teamEmail, teamEmailVerification, emailUnique, now, nextNo, layout, table>>

\* mailer.sendMail rejects.
SendFails(c) ==
    /\ call[c].pc = "send"
    /\ Throw(c, PlainError("MAIL"))
    /\ UNCHANGED <<teamEmail, teamEmailVerification, emailUnique, outbox, now, nextNo, layout, table>>

\* The rows a transaction leaves in the table when it is committed.
CommittedRows(rows, write) == rows \cup {write}

\* The callback has returned and the transaction commits.
Commit(c) ==
    /\ call[c].pc = "commit"
    /\ teamEmailVerification' = CommittedRows(teamEmailVerification, call[c].write[1])
    /\ call' = [call EXCEPT ![c] = Ended(c, NoError, NoError)]
    /\ UNCHANGED <<teamEmail, emailUnique, outbox, now, nextNo, layout, table>>

\* The commit is refused (the transaction has expired, the connection is
\* lost): prisma.$transaction rejects and nothing is written.
CommitFails(c) ==
    /\ call[c].pc = "commit"
    /\ Throw(c, PrismaErrorNoTarget("P2028"))
    /\ UNCHANGED <<teamEmail, teamEmailVerification, emailUnique, outbox, now, nextNo, layout, table>>

IdleLayout ==
    [pc |-> "idle", cookie |-> Null, members |-> [u \in Users |-> {}], children |-> "teams",
     session |-> Null, calls |-> <<>>, user |-> Null, teams |-> Null,
     redirected |-> Null, rendered |-> Null]
IdleTable ==
    [pc |-> "idle", pathname |-> Null, url |-> <<>>, searchQuery |-> <<>>,
     debouncedSearchQuery |-> <<>>, effectDue |-> FALSE, data |-> Null,
     queryInput |-> [term |-> Null, page |-> Null, perPage |-> Null],
     results |-> [data |-> <<>>, perPage |-> 10, currentPage |-> 1, totalPages |-> 1]]

\* The team emails a database may hold: no two teams share an address
\* (TeamEmail.email is what tx.teamEmail.findFirst looks up).  The addresses
\* are interchangeable, so the first team email in team order is "a@x.io".
TeamEmailTables ==
    {f \in [Teams -> Emails \cup {NoEmail}] :
        /\ \A s, t \in Teams : s # t /\ f[s] # NoEmail => f[s] # f[t]
        /\ \A t \in Teams : f[t] = "b@x.io" => \E s \in Teams : s < t /\ f[s] = "a@x.io"}

InitVerify ==
    /\ teamEmail \in TeamEmailTables
    /\ teamEmailVerification = {}
    /\ emailUnique \in BOOLEAN
    /\ outbox = <<>>
    /\ now = 0
    /\ call = [c \in Slots |-> IdleCall]
    /\ nextNo = 1
    /\ layout = IdleLayout
    /\ table = IdleTable

NextVerify ==
    \E c \in Slots :
        \/ Start(c)
        \/ FindTeam(c)
        \/ FindTeamEmail(c)
        \/ Create(c)
        \/ Send(c)
        \/ SendFails(c)
        \/ Commit(c)
        \/ CommitFails(c)

SpecVerify == InitVerify /\ [][NextVerify]_vars

(***************************************************************************)
(* Properties of addTeamEmailVerification.                                 *)
(***************************************************************************)
\* The calls that have ended and whose slot has not been taken again.
EndedCalls == {c \in Slots : call[c].pc = "ended"}
Failed(c) == call[c].result # NoError
\* The mails a call has sent and the rows it has persisted.
MailsBy(no) == {i \in DOMAIN outbox : outbox[i].by = no}
RowsBy(no) == {r \in teamEmailVerification : r.by = no}
\* The user is a member of the team with a role that may MANAGE_TEAM.
Permitted(c) ==
    /\ call[c].teamId \in Teams
    /\ MemberRole(call[c].teamId, call[c].userId)
         \in TEAM_MEMBER_ROLE_PERMISSIONS_MAP("MANAGE_TEAM")
\* The requested address is the team email of some team.
EmailTaken(c) == \E t \in Teams : teamEmail[t] = call[c].email
NoTrace(c) ==
    /\ RowsBy(call[c].no) = {}
    /\ MailsBy(call[c].no) = {}
    /\ call[c].write = Null
    /\ call[c].created = Null

\* C1: a call creates a verification record and sends a mail only for a
\* member of the team whose role may MANAGE_TEAM; every other call fails,
\* leaves no record and sends no mail.
C1_OnlyManagersCreate ==
    \A c \in Slots :
        (call[c].pc # "idle" /\ ~Permitted(c)) =>
            /\ call[c].pc \in {"findTeam", "ended"}
            /\ call[c].pc = "ended" => Failed(c)
            /\ NoTrace(c)

C1_Witness ==
    \E c, d \in Slots :
        /\ call[c].pc = "ended" /\ ~Permitted(c) /\ call[c].teamId \in Teams
        /\ call[c].result.code = "P2025"
        /\ call[d].pc = "ended" /\ Permitted(d) /\ ~Failed(d)
        /\ RowsBy(call[d].no) # {} /\ MailsBy(call[d].no) # {}

\* C2 as stated: at most one pending verification per team, none for a team
\* that has an email, and every call for a team that already has an email or
\* a verification fails with INVALID_REQUEST, leaving no trace.
C2_AsStated ==
    /\ \A t \in Teams : Cardinality(VerificationsOf(t)) <= 1
    /\ \A t \in Teams : teamEmail[t] # NoEmail => VerificationsOf(t) = {}
    /\ \A c \in EndedCalls :
          (call[c].hadEmail \/ call[c].hadVerification) =>
              /\ call[c].result = AppError("INVALID_REQUEST")
              /\ NoTrace(c)

\* C2 (amended): at most one pending verification per team, none for a team
\* that has an email; a call for a team that already has an email or a
\* verification fails, creates no record, sends no mail and leaves what the
\* team had in place, and it fails with INVALID_REQUEST when the caller may
\* manage the team.
C2_OnePendingPerTeam ==
    /\ \A t \in Teams : Cardinality(VerificationsOf(t)) <= 1
    /\ \A t \in Teams : teamEmail[t] # NoEmail => VerificationsOf(t) = {}
    /\ \A c \in Slots :
          (call[c].pc # "idle" /\ (call[c].hadEmail \/ call[c].hadVerification)) =>
              /\ NoTrace(c)
              /\ call[c].hadEmail => teamEmail[call[c].teamId] # NoEmail
              /\ call[c].hadVerification =>
                    \E r \in VerificationsOf(call[c].teamId) : r.by # call[c].no
              /\ call[c].pc = "ended" =>
                    /\ Failed(c)
                    /\ Permitted(c) => call[c].result = AppError("INVALID_REQUEST")

C2_Witness ==
    \E c \in EndedCalls :
        /\ call[c].hadVerification /\ ~call[c].hadEmail
        /\ Permitted(c)
        /\ call[c].result = AppError("INVALID_REQUEST")

\* C3 as stated: every call that requests an address some team holds as its
\* team email fails with ALREADY_EXISTS; a P2002 on 'email' is reported as
\* ALREADY_EXISTS and every other error is rethrown unchanged.
C3_AsStated ==
    \A c \in EndedCalls :
        /\ EmailTaken(c) => call[c].result = AppError("ALREADY_EXISTS") /\ NoTrace(c)
        /\ IF /\ call[c].thrown.cls = "PrismaClientKnownRequestError"
              /\ call[c].thrown.code = "P2002"
              /\ call[c].thrown.targetOk /\ "email" \in call[c].thrown.target
           THEN call[c].result = AppError("ALREADY_EXISTS")
           ELSE call[c].result = call[c].thrown

\* Whether the call got past the membership check and the check of the
\* team's email and verification.
PassedTeamChecks(c) ==
    /\ call[c].team # Null
    /\ call[c].team[1].email = Null
    /\ call[c].team[1].emailVerification = Null

\* C3 (amended): a call that requests an address some team holds as its team
\* email fails, creates no record and sends no mail; it fails with
\* ALREADY_EXISTS when it got past the membership check and the check of the
\* team's own email and verification.  A P2002 on 'email' is reported as
\* ALREADY_EXISTS, every other error is rethrown unchanged.
C3_EmailTaken ==
    /\ \A c \in Slots : (call[c].pc # "idle" /\ EmailTaken(c)) => NoTrace(c)
    /\ \A c \in EndedCalls :
        /\ EmailTaken(c) => Failed(c)
        /\ (EmailTaken(c) /\ PassedTeamChecks(c)) =>
              /\ call[c].thrown = AppError("ALREADY_EXISTS")
              /\ call[c].result = AppError("ALREADY_EXISTS")
        /\ IF /\ call[c].thrown.cls = "PrismaClientKnownRequestError"
              /\ call[c].thrown.code = "P2002"
              /\ call[c].thrown.targetOk /\ "email" \in call[c].thrown.target
           THEN call[c].result = AppError("ALREADY_EXISTS")
           ELSE call[c].result = call[c].thrown

\* A call has found the address taken by the lookup.
C3_Witness ==
    \E c \in EndedCalls :
        /\ EmailTaken(c) /\ PassedTeamChecks(c)
        /\ call[c].thrown = AppError("ALREADY_EXISTS")
        /\ call[c].result = AppError("ALREADY_EXISTS")

\* A call was told by the database that the address is taken.
C3_WitnessDatabase ==
    \E d \in EndedCalls :
        /\ call[d].thrown = PrismaError("P2002", {"email"})
        /\ call[d].result = AppError("ALREADY_EXISTS")

\* C4: every mail is sent after its call has created the record, to the
\* address and with the token of that record; a call that succeeds has sent
\* exactly one mail and its record is persisted.
C4_MailAfterRecord ==
    /\ \A c \in Slots : \A i \in MailsBy(call[c].no) :
          call[c].pc # "idle" =>
              LET made == IF call[c].pc = "ended" THEN call[c].created ELSE call[c].write
              IN  /\ made # Null
                  /\ outbox[i].to = made[1].email
                  /\ outbox[i].token = made[1].token
    /\ \A c \in EndedCalls :
          ~Failed(c) =>
              /\ Cardinality(MailsBy(call[c].no)) = 1
              /\ call[c].created # Null
              /\ call[c].created[1] \in teamEmailVerification
    /\ \A c \in Slots : call[c].pc \in {"findTeam", "findTeamEmail", "create", "send"} =>
          MailsBy(call[c].no) = {}

C4_Witness ==
    \E c \in EndedCalls :
        /\ ~Failed(c)
        /\ \E i \in MailsBy(call[c].no) : \E r \in RowsBy(call[c].no) :
              outbox[i].to = r.email /\ outbox[i].token = r.token

\* The rows that exist anywhere: committed, or written by a transaction.
AllRows ==
    teamEmailVerification
        \cup {call[c].write[1] : c \in {x \in Slots : call[x].write # Null}}
        \cup {call[c].created[1] : c \in {x \in Slots : call[x].created # Null}}

\* C5: a token expires 10 minutes after it was generated, so every record has
\* createdAt < expiresAt and expiresAt - createdAt <= 10; the token string has
\* length 32.
C5_TokenLifetime ==
    /\ \A r \in AllRows :
          /\ r.createdAt < r.expiresAt
          /\ r.expiresAt - r.createdAt <= 10
          /\ Len(r.token) = 32
    /\ \A c \in Slots : call[c].write # Null =>
          /\ call[c].write[1].expiresAt = call[c].generatedAt + 10
          /\ call[c].write[1].createdAt >= call[c].generatedAt

\* A record whose createdAt was read a tick after the expiry was computed.
C5_Witness ==
    \E r \in teamEmailVerification :
        r.expiresAt - r.createdAt = 9 /\ Len(r.token) = 32

\* C7: when the mail cannot be sent the error reaches the caller and the
\* record is not persisted; and when a call has sent a mail and has ended, a
\* record holding the mail's token is persisted.
C7_MailAndRecordAtomic ==
    \A c \in EndedCalls :
        /\ call[c].thrown = PlainError("MAIL") =>
              call[c].result = PlainError("MAIL") /\ RowsBy(call[c].no) = {}
        /\ \A i \in MailsBy(call[c].no) :
              \E r \in teamEmailVerification : r.token = outbox[i].token

\* C8: of two calls for the same team at most one succeeds, at most one record
\* is persisted for the team and at most one mail is sent; and no two teams
\* hold a pending verification for the same address.
C8_RaceFree ==
    /\ \A c, d \in Slots :
          (c # d /\ call[c].pc # "idle" /\ call[d].pc # "idle"
                 /\ call[c].teamId = call[d].teamId) =>
              /\ ~(call[c].pc = "ended" /\ ~Failed(c) /\ call[d].pc = "ended" /\ ~Failed(d))
              /\ Cardinality(MailsBy(call[c].no) \cup MailsBy(call[d].no)) <= 1
    /\ \A t \in Teams : Cardinality(VerificationsOf(t)) <= 1
    /\ \A r, q \in teamEmailVerification : r.email = q.email => r.teamId = q.teamId

(***************************************************************************)
(* AuthenticatedTeamsDashboardLayout.                                      *)
(***************************************************************************)
Pages == {"teams", "settings"}

\* The teams a user belongs to, as the database of a request may hold them.
MembershipTables == [Users -> SUBSET Teams]

\* getTeams({ userId }): the teams of the user.
getTeams(userId) == layout.members[userId]

\* The argument the layout hands to getTeams: session.user.id.
GetTeamsArgument(session) == session[1]

\* A layout that goes on to load without looking at the session.
AfterSessionMutant(session) == "load"

\* if (!session) redirect('/signin'): redirect() throws, nothing after it runs.
AfterSession(session) == IF session = Null THEN "redirect" ELSE "load"

\* const session = await getServerSession(NEXT_AUTH_OPTIONS)
GetServerSession ==
    /\ layout.pc = "start"
    /\ layout' = [layout EXCEPT !.session = layout.cookie,
                                !.pc = AfterSession(layout.cookie)]
    /\ UNCHANGED <<verifyVars, table>>

\* redirect('/signin')
Redirect ==
    /\ layout.pc = "redirect"
    /\ layout' = [layout EXCEPT !.redirected = Some("/signin"), !.pc = "redirected"]
    /\ UNCHANGED <<verifyVars, table>>

\* Promise.all([getRequiredServerComponentSession(), getTeams(...)]): both
\* calls are made, in this order, before either is awaited.  Without a
\* session, reading session.user.id throws after the first call.
StartLoads ==
    /\ layout.pc = "load"
    /\ layout' = [layout EXCEPT
                    !.calls = layout.calls \o
                        << [fn |-> "getRequiredServerComponentSession", userId |-> 0] >> \o
                        (IF layout.session = Null THEN <<>>
                         ELSE << [fn |-> "getTeams",
                                  userId |-> GetTeamsArgument(layout.session)] >>),
                    !.pc = IF layout.session = Null THEN "crashed" ELSE "loading"]
    /\ UNCHANGED <<verifyVars, table>>

\* getRequiredServerComponentSession() resolves with the user of the session.
ResolveUser ==
    /\ layout.pc = "loading"
    /\ layout.user = Null
    /\ layout' = [layout EXCEPT !.user = layout.cookie]
    /\ UNCHANGED <<verifyVars, table>>

\* getTeams resolves.
ResolveTeams ==
    /\ layout.pc = "loading"
    /\ layout.teams = Null
    /\ \E i \in DOMAIN layout.calls :
          /\ layout.calls[i].fn = "getTeams"
          /\ layout.calls[i].userId \in Users
          /\ layout' = [layout EXCEPT !.teams = Some(getTeams(layout.calls[i].userId))]
    /\ UNCHANGED <<verifyVars, table>>

\* Both promises have resolved: the header and the children are rendered.
Render ==
    /\ layout.pc = "loading"
    /\ layout.user # Null
    /\ layout.teams # Null
    /\ layout' = [layout EXCEPT
                    !.rendered = Some([user |-> layout.user[1], teams |-> layout.teams[1],
                                       children |-> layout.children]),
                    !.pc = "rendered"]
    /\ UNCHANGED <<verifyVars, table>>

InitLayout ==
    /\ teamEmail = [t \in Teams |-> NoEmail]
    /\ teamEmailVerification = {}
    /\ emailUnique = FALSE
    /\ outbox = <<>>
    /\ now = 0
    /\ call = [c \in Slots |-> IdleCall]
    /\ nextNo = 1
    /\ table = IdleTable
    /\ \E cookie \in {Null} \cup {Some(u) : u \in Users}, members \in MembershipTables,
          children \in Pages :
          layout = [pc |-> "start", cookie |-> cookie, members |-> members,
                    children |-> children, session |-> Null, calls |-> <<>>,
                    user |-> Null, teams |-> Null, redirected |-> Null, rendered |-> Null]

NextLayout ==
    \/ GetServerSession
    \/ Redirect
    \/ StartLoads
    \/ ResolveUser
    \/ ResolveTeams
    \/ Render

SpecLayout == InitLayout /\ [][NextLayout]_vars

\* C6: without a session the request is redirected to /signin, no loader is
\* called and nothing is rendered; with a session getTeams is called with the
\* id of the session's user and the header gets the teams it returned.
C6_NoSessionNoData ==
    /\ layout.cookie = Null =>
          /\ layout.calls = <<>>
          /\ layout.rendered = Null
          /\ layout.pc \in {"start", "redirect", "redirected"}
          /\ layout.pc = "redirected" => layout.redirected = Some("/signin")
    /\ layout.cookie # Null =>
          /\ layout.redirected = Null
          /\ \A i \in DOMAIN layout.calls :
                layout.calls[i].fn = "getTeams" => layout.calls[i].userId = layout.cookie[1]
          /\ layout.pc \in {"loading", "rendered"} =>
                Cardinality({i \in DOMAIN layout.calls : layout.calls[i].fn = "getTeams"}) = 1
          /\ layout.rendered # Null =>
                /\ layout.rendered[1].teams = layout.members[layout.cookie[1]]
                /\ layout.rendered[1].user = layout.cookie[1]

\* A request without a session has been redirected.
C6_Witness ==
    /\ layout.cookie = Null
    /\ layout.redirected = Some("/signin")
    /\ layout.calls = <<>>

\* A request of user 2 has been rendered with the teams of user 2.
C6_WitnessSession ==
    /\ layout.cookie = Some(2)
    /\ layout.rendered # Null
    /\ layout.rendered[1].teams = layout.members[2]
    /\ layout.members[2] # layout.members[1]

(***************************************************************************)
(* TeamsDataTable.                                                         *)
(*                                                                         *)
(* A query string is a sequence of tokens: parameter names, "=", "&" and   *)
(* the characters of the encoded values ("+" for a space, "%26" for "&").  *)
(* Search parameters are a sequence of name/value pairs with the values    *)
(* decoded, as URLSearchParams holds them.                                 *)
(***************************************************************************)
MaxTextLen == 1     \* the longest text typed into the search box

\* The characters typed: a plain one and one the query string reserves.  A
\* space reaches the search box from the query string the page is opened with.
Chars == {"a", "&"}
RECURSIVE TextsUpTo(_)
TextsUpTo(n) ==
    IF n = 0 THEN {<<>>}
    ELSE TextsUpTo(n - 1) \cup {Append(t, ch) : t \in {x \in TextsUpTo(n - 1) : Len(x) = n - 1}, ch \in Chars}
Texts == TextsUpTo(MaxTextLen)

\* application/x-www-form-urlencoded: the serializer's encoding of one value.
RECURSIVE Encode(_)
Encode(text) ==
    IF text = <<>> THEN <<>>
    ELSE << CASE Head(text) = " " -> "+"
              [] Head(text) = "&" -> "%26"
              [] OTHER -> Head(text) >> \o Encode(Tail(text))

\* The parser's decoding of one value.
RECURSIVE Decode(_)
Decode(tokens) ==
    IF tokens = <<>> THEN <<>>
    ELSE << CASE Head(tokens) \in {"+", "%20"} -> " "
              [] Head(tokens) = "%26" -> "&"
              [] OTHER -> Head(tokens) >> \o Decode(Tail(tokens))

\* URLSearchParams.toString()
RECURSIVE Serialize(_)
Serialize(pairs) ==
    IF pairs = <<>> THEN <<>>
    ELSE Head(pairs).k \o <<"=">> \o Encode(Head(pairs).v)
            \o (IF Tail(pairs) = <<>> THEN <<>> ELSE <<"&">> \o Serialize(Tail(pairs)))

RECURSIVE Split(_, _)
Split(s, sep) ==
    IF \A i \in DOMAIN s : s[i] # sep THEN <<s>>
    ELSE LET i == CHOOSE x \in DOMAIN s : s[x] = sep /\ \A j \in 1..(x - 1) : s[j] # sep
         IN  <<SubSeq(s, 1, i - 1)>> \o Split(SubSeq(s, i + 1, Len(s)), sep)

\* One name=value segment of a query string; a segment without "=" is a
\* name with the empty value.
ParsePair(seg) ==
    IF \A i \in DOMAIN seg : seg[i] # "=" THEN [k |-> seg, v |-> <<>>]
    ELSE LET i == CHOOSE x \in DOMAIN seg : seg[x] = "=" /\ \A j \in 1..(x - 1) : seg[j] # "="
         IN  [k |-> SubSeq(seg, 1, i - 1), v |-> Decode(SubSeq(seg, i + 1, Len(seg)))]

RECURSIVE ParseSegments(_)
ParseSegments(segs) ==
    IF segs = <<>> THEN <<>>
    ELSE (IF Head(segs) = <<>> THEN <<>> ELSE <<ParsePair(Head(segs))>>)
            \o ParseSegments(Tail(segs))

\* new URLSearchParams(string)
ParseQueryString(str) == ParseSegments(Split(str, "&"))

RECURSIVE Delete(_, _)
\* URLSearchParams.delete(name)
Delete(pairs, name) ==
    IF pairs = <<>> THEN <<>>
    ELSE (IF Head(pairs).k = name THEN <<>> ELSE <<Head(pairs)>>) \o Delete(Tail(pairs), name)

\* URLSearchParams.append(name, value)
AppendParam(pairs, name, value) == Append(pairs, [k |-> name, v |-> value])

\* URLSearchParams.set(name, value): the first pair of that name gets the
\* value and the others go; without one the pair is appended.
SetParam(pairs, name, value) ==
    IF \A i \in DOMAIN pairs : pairs[i].k # name THEN AppendParam(pairs, name, value)
    ELSE LET i == CHOOSE x \in DOMAIN pairs : pairs[x].k = name /\ \A j \in 1..(x - 1) : pairs[j].k # name
         IN  SubSeq(pairs, 1, i - 1) \o <<[k |-> name, v |-> value]>>
                \o Delete(SubSeq(pairs, i + 1, Len(pairs)), name)

\* Object.fromEntries(searchParams)[name]: the last pair of that name wins.
FromEntries(pairs, name) ==
    IF \A i \in DOMAIN pairs : pairs[i].k # name THEN Null
    ELSE LET i == CHOOSE x \in DOMAIN pairs : pairs[x].k = name /\ \A j \in (x + 1)..Len(pairs) : pairs[j].k # name
         IN  Some(pairs[i].v)

\* z.coerce.number().min(1).optional().catch(undefined) on a parameter.
CoerceNumber(value) ==
    IF value = Null THEN Null
    ELSE CASE value[1] = <<"1">> -> Some(1)
           [] value[1] = <<"2">> -> Some(2)
           [] value[1] = <<"10">> -> Some(10)
           [] OTHER -> Null

\* String(number)
NumberToText(n) == CASE n = 1 -> <<"1">> [] n = 2 -> <<"2">> [] OTHER -> <<"10">>

\* ZBaseTableSearchParamsSchema.parse(Object.fromEntries(searchParams))
ParsedSearchParams(url) ==
    LET pairs == ParseQueryString(url)
    IN  [query |-> FromEntries(pairs, <<"query">>),
         page |-> CoerceNumber(FromEntries(pairs, <<"page">>)),
         perPage |-> CoerceNumber(FromEntries(pairs, <<"perPage">>))]

\* A query input that takes the term from the search box.
FindTeamsInputMutant(t) ==
    [term |-> Some(t.searchQuery), page |-> ParsedSearchParams(t.url).page,
     perPage |-> ParsedSearchParams(t.url).perPage]

\* The input of trpc.team.findTeams.useQuery in a render.
FindTeamsInput(t) ==
    [term |-> ParsedSearchParams(t.url).query, page |-> ParsedSearchParams(t.url).page,
     perPage |-> ParsedSearchParams(t.url).perPage]

\* const results = data ?? { data: [], perPage: 10, currentPage: 1, totalPages: 1 }
Results(data) ==
    IF data = Null THEN [data |-> <<>>, perPage |-> 10, currentPage |-> 1, totalPages |-> 1]
    ELSE data[1]

\* A render of the component: the query input and the page shown follow
\* from the state.
Rendered(t) == [t EXCEPT !.queryInput = FindTeamsInput(t), !.results = Results(t.data)]

\* An effect that appends the 'query' parameter instead of setting it.
SearchEffectUrlMutant(url, debouncedSearchQuery) ==
    Serialize(IF debouncedSearchQuery = <<>> THEN Delete(ParseQueryString(url), <<"query">>)
              ELSE AppendParam(ParseQueryString(url), <<"query">>, debouncedSearchQuery))

\* The body of the effect: the query string it pushes.
SearchEffectUrl(url, debouncedSearchQuery) ==
    LET params == SetParam(ParseQueryString(url), <<"query">>, debouncedSearchQuery)
    IN  Serialize(IF debouncedSearchQuery = <<>> THEN Delete(params, <<"query">>) ELSE params)

\* updateSearchParams({ page, perPage }): the query string it pushes.
UpdateSearchParams(url, page, perPage) ==
    Serialize(SetParam(SetParam(ParseQueryString(url), <<"page">>, NumberToText(page)),
                       <<"perPage">>, NumberToText(perPage)))

\* onChange of the search box: setSearchQuery(e.target.value)
SetSearchQuery(text) ==
    /\ table.pc = "mounted"
    /\ text # table.searchQuery
    /\ table' = Rendered([table EXCEPT !.searchQuery = text])
    /\ UNCHANGED <<verifyVars, layout>>

\* useDebouncedValue: 500 ms after the last change the debounced value
\* takes the value of the search box.
DebounceElapsed ==
    /\ table.pc = "mounted"
    /\ table.debouncedSearchQuery # table.searchQuery
    /\ table' = Rendered([table EXCEPT !.debouncedSearchQuery = table.searchQuery,
                                       !.effectDue = TRUE])
    /\ UNCHANGED <<verifyVars, layout>>

\* The effect runs (after mount, and when debouncedSearchQuery or
\* searchParams have changed).  The router hands out new searchParams when
\* the query string has changed.
SearchEffect ==
    /\ table.pc = "mounted"
    /\ table.effectDue
    /\ IF table.pathname = Null
       THEN table' = Rendered([table EXCEPT !.effectDue = FALSE])
       ELSE LET url == SearchEffectUrl(table.url, table.debouncedSearchQuery)
            IN  table' = Rendered([table EXCEPT !.url = url,
                                                !.effectDue = (url # table.url)])
    /\ UNCHANGED <<verifyVars, layout>>

\* onPaginationChange(page, perPage)
OnPaginationChange(page, perPage) ==
    /\ table.pc = "mounted"
    /\ LET url == UpdateSearchParams(table.url, page, perPage)
       IN  table' = Rendered([table EXCEPT !.url = url,
                                           !.effectDue = table.effectDue \/ url # table.url])
    /\ UNCHANGED <<verifyVars, layout>>

\* The page of teams the server returns for a query input.
FindTeamsResponse(input) ==
    [data |-> <<"team">>,
     perPage |-> IF input.perPage = Null THEN 10 ELSE input.perPage[1],
     currentPage |-> IF input.page = Null THEN 1 ELSE input.page[1],
     totalPages |-> 2]

\* The findTeams query resolves for the current input.
ReceiveData ==
    /\ table.pc = "mounted"
    /\ table' = Rendered([table EXCEPT !.data = Some(FindTeamsResponse(table.queryInput))])
    /\ table' # table
    /\ UNCHANGED <<verifyVars, layout>>

\* The query strings a page may be opened with.
InitialUrls ==
    LET q  == {<<>>} \cup {<<[k |-> <<"query">>, v |-> t]>> : t \in Texts}
        pg == {<<>>, <<[k |-> <<"page">>, v |-> <<"2">>]>>, <<[k |-> <<"page">>, v |-> <<"0">>]>>}
    IN  {Serialize(a \o b) : a \in q, b \in pg}
            \cup {Serialize(b \o a) : a \in q, b \in pg}
            \cup {<<"query", "=", "%20">>, <<"query", "=", "a", "&", "query", "=", "+">>,
                  <<"query">>, <<"&", "page", "=", "2">>}

InitTable ==
    /\ teamEmail = [t \in Teams |-> NoEmail]
    /\ teamEmailVerification = {}
    /\ emailUnique = FALSE
    /\ outbox = <<>>
    /\ now = 0
    /\ call = [c \in Slots |-> IdleCall]
    /\ nextNo = 1
    /\ layout = IdleLayout
    /\ \E url \in InitialUrls, pathname \in {Null, Some("/teams")} :
          LET query == ParsedSearchParams(url).query
              text == IF query = Null THEN <<>> ELSE query[1]
          IN  table = Rendered([pc |-> "mounted", pathname |-> pathname, url |-> url,
                                searchQuery |-> text, debouncedSearchQuery |-> text,
                                effectDue |-> TRUE, data |-> Null,
                                queryInput |-> [term |-> Null, page |-> Null, perPage |-> Null],
                                results |-> Results(Null)])

NextTable ==
    \/ \E text \in Texts : SetSearchQuery(text)
    \/ DebounceElapsed
    \/ SearchEffect
    \/ \E page \in {1, 2}, perPage \in {10} : OnPaginationChange(page, perPage)
    \/ ReceiveData

SpecTable == InitTable /\ [][NextTable]_vars

(***************************************************************************)
(* Properties of TeamsDataTable.                                           *)
(***************************************************************************)
\* The values a query string holds for a parameter, in order.
RECURSIVE ValuesIn(_, _)
ValuesIn(pairs, name) ==
    IF pairs = <<>> THEN <<>>
    ELSE (IF Head(pairs).k = name THEN <<Head(pairs).v>> ELSE <<>>) \o ValuesIn(Tail(pairs), name)
ValuesOf(url, name) == ValuesIn(ParseQueryString(url), name)

\* The 'query' parameter that agrees with a search text: the text, or none
\* for the empty text.
QueryFor(text) == IF text = <<>> THEN <<>> ELSE <<text>>

\* C9, one run of the effect with a pathname: afterwards the 'query'
\* parameter is the debounced text, or absent when that is empty, and page
\* and perPage are as before; when the run has changed the query string, so
\* that the effect runs again, that next run pushes the same query string.
C9_EffectStep ==
    (SearchEffect /\ table.pathname # Null) =>
        /\ ValuesOf(table'.url, <<"query">>) = QueryFor(table.debouncedSearchQuery)
        /\ ValuesOf(table'.url, <<"page">>) = ValuesOf(table.url, <<"page">>)
        /\ ValuesOf(table'.url, <<"perPage">>) = ValuesOf(table.url, <<"perPage">>)
        /\ table'.effectDue = (table'.url # table.url)
        /\ SearchEffectUrl(table'.url, table'.debouncedSearchQuery) = table'.url

\* C9, in every state: the step is idempotent, and when no run of the effect
\* is due the query string agrees with the debounced text.
C9_Stable ==
    table.pathname # Null =>
        /\ LET once == SearchEffectUrl(table.url, table.debouncedSearchQuery)
           IN  SearchEffectUrl(once, table.debouncedSearchQuery) = once
        /\ ~table.effectDue =>
              /\ ValuesOf(table.url, <<"query">>) = QueryFor(table.debouncedSearchQuery)
              /\ SearchEffectUrl(table.url, table.debouncedSearchQuery) = table.url

\* C9: the effect writes the debounced search text to the 'query' parameter
\* of the URL (removing it for the empty text), leaves page and perPage
\* alone, is idempotent and comes to rest on a stable URL.
C9_SearchToUrl == []C9_Stable /\ [][C9_EffectStep]_vars

\* The effect has replaced the query of a URL that holds a page, with a text
\* that needs encoding, and has come to rest.
C9_Witness ==
    /\ table.pc = "mounted" /\ table.pathname # Null
    /\ ~table.effectDue
    /\ table.debouncedSearchQuery = <<"&">>
    /\ table.url = <<"query", "=", "%26", "&", "page", "=", "2">>

\* C10, in every state: findTeams is queried with the term, page and perPage
\* parsed from the URL, and without data the table shows an empty first page
\* of 10 rows per page out of one page.
C10_BoundToUrl ==
    table.pc = "mounted" =>
        /\ table.queryInput.term = ParsedSearchParams(table.url).query
        /\ table.queryInput.page = ParsedSearchParams(table.url).page
        /\ table.queryInput.perPage = ParsedSearchParams(table.url).perPage
        /\ table.data = Null =>
              table.results = [data |-> <<>>, perPage |-> 10, currentPage |-> 1, totalPages |-> 1]

\* C10, every step: a pagination change rewrites page and perPage and leaves
\* the 'query' parameter alone; typing and the debounce timer leave the URL
\* and the queried term alone; the queried term changes only in a run of the
\* effect, to the debounced text.
C10_Step ==
    /\ \A page \in {1, 2}, perPage \in {10} :
          OnPaginationChange(page, perPage) =>
              /\ ValuesOf(table'.url, <<"page">>) = <<NumberToText(page)>>
              /\ ValuesOf(table'.url, <<"perPage">>) = <<NumberToText(perPage)>>
              /\ ValuesOf(table'.url, <<"query">>) = ValuesOf(table.url, <<"query">>)
              /\ table'.queryInput.term = table.queryInput.term
    /\ ((\E text \in Texts : SetSearchQuery(text)) \/ DebounceElapsed) =>
          /\ table'.url = table.url
          /\ table'.queryInput = table.queryInput
    /\ table'.queryInput.term # table.queryInput.term =>
          /\ SearchEffect
          /\ table'.queryInput.term =
                (IF table.debouncedSearchQuery = <<>> THEN Null
                 ELSE Some(table.debouncedSearchQuery))

\* C10: the table is bound to the URL, not to the text box.
C10_TableBoundToUrl == []C10_BoundToUrl /\ [][C10_Step]_vars

\* Text has been typed and the page changed, the URL holds no query yet, and
\* no data has arrived.
C10_Witness ==
    /\ table.pc = "mounted"
    /\ table.searchQuery = <<"a">>
    /\ table.queryInput.term = Null
    /\ table.queryInput.page = Some(2)
    /\ table.queryInput.perPage = Some(10)
    /\ table.data = Null
    /\ table.results.totalPages = 1

====
